---- MODULE Spec2Model ----
(***************************************************************************)
(* A model of the planegcs WebAssembly binding layer:                      *)
(*   - GcsSystem (build-bindings/templates/gcs_system.cpp.njk): the        *)
(*     parameter store p_params / is_fixed, the make_* geometry builders,  *)
(*     and the solve_system / apply_solution / clear_data facade over      *)
(*     GCS::System;                                                        *)
(*   - get_property_offset (sketch/geom_params.ts).                        *)
(*                                                                         *)
(* A parameter slot is a heap double owned by p_params[i]; the model       *)
(* names it by its index i (0-based, as in the C++), and p_params holds    *)
(* the value stored in it.  TLA+ sequences are 1-based, so slot i is       *)
(* element i + 1.  Doubles are drawn from the small set Values.            *)
(***************************************************************************)
EXTENDS Integers, Sequences, FiniteSets, TLC

\* ---------------------------------------------------------------- bounds
MaxParams == 2

Values == {0, 1}

\* indices a caller may pass: negative, possibly valid, always too large
IndexInputs == -1 .. MaxParams

\* README: "sets the maximum number of iterations for the solver. Default is 100"
DefaultMaxIter == 100

\* lengths of the index sequences handed to make_bspline
MaxPolesXY == 3

MaxWeights == 2

MaxKnots == 2

\* the structural B-spline arguments, which are not indices
Mults == {<<2, 2>>}

Degrees == {3}

\* what the int one past the end of poles_xy_i may hold
PastEndInts == IndexInputs

\* registered constraints
MaxConstraints == 2

Tags == {1, 2}

\* the slots a registered constraint may be built on
ConstraintSlots == {0}

AlgorithmInputs == {0, 1, 2}

DebugInputs == {0, 2}

MaxIterInputs == {50, DefaultMaxIter}

\* sizes of the arrays of a B-spline primitive
MaxControlPoints == 4

MaxWeightCount == 4

MaxKnotCount == 8

VARIABLES
    p_params,   \* vector<double*> p_params: the value held by each slot
    is_fixed,   \* vector<bool> is_fixed
    issued,     \* history: indices returned by push_p_param since the last clear_data
    solved,     \* history: the last solve_system since construction or clear_data
    clist,      \* GCS::System: the registered constraints
    plist,      \* GCS::System: the unknowns declared by the last solve
    hasSol,     \* GCS::System: a solution is held for the unknowns
    sol,        \* GCS::System: the solved value of each unknown
    debugMode,  \* GCS::System::debugMode
    maxIter,    \* GCS::System::maxIter
    primitive,  \* the sketch primitive handed to get_property_offset
    last        \* the last call made, its arguments and its outcome

store == <<p_params, is_fixed>>

system == <<clist, plist, hasSol, sol>>

config == <<debugMode, maxIter>>

vars == <<p_params, is_fixed, issued, solved, clist, plist, hasSol, sol, debugMode, maxIter, primitive, last>>

\* ------------------------------------------------------- outcomes of a call
NoError == "none"

\* std::runtime_error thrown by p_param_or_fail
IndexOutOfRange == "parameter index outside range"

\* a read or write through a pointer outside the vector's storage may abort
\* the WebAssembly instance
MemoryTrap == "memory access out of bounds"

\* ---------------------------------------------------------- ParameterStore
params_size == Len(p_params)

\* the indices for which vector::operator[] is defined
InRange(i) == 0 <= i /\ i < Len(p_params)

\* *p_params[i] for an index in range
ValueAt(i) == p_params[i + 1]

\* is_fixed[i] for an index in range
FixedAt(i) == is_fixed[i + 1]

\* no solve_system call yet: ran is FALSE, and so is ok; free is empty
NoSolve == [ran |-> FALSE, ok |-> FALSE, free |-> {}]

NoPrimitive == [type |-> "none"]

Init ==
    /\ p_params = <<>>
    /\ is_fixed = <<>>
    /\ issued = {}
    /\ solved = NoSolve
    /\ clist = {}
    /\ plist = <<>>
    /\ hasSol = FALSE
    /\ sol = <<>>
    /\ debugMode = "NoDebug"
    /\ maxIter = DefaultMaxIter
    /\ primitive = NoPrimitive
    /\ last = [op |-> "GcsSystem"]

params_size_call ==
    /\ last' = [op |-> "params_size", ret |-> Len(p_params), err |-> NoError]
    /\ UNCHANGED <<store, issued, solved, system, config, primitive>>

\* get_p_param(i): *p_params[i], with no bounds check.  Outside the vector the
\* read is undefined: it yields whatever the addressed memory holds, or traps.
get_p_param(i) ==
    /\ \/ /\ InRange(i)
          /\ last' = [op |-> "get_p_param", i |-> i, ret |-> ValueAt(i), err |-> NoError]
       \/ /\ ~InRange(i)
          /\ \E garbage \in Values :
                last' = [op |-> "get_p_param", i |-> i, ret |-> garbage, err |-> NoError]
       \/ /\ ~InRange(i)
          /\ last' = [op |-> "get_p_param", i |-> i, err |-> MemoryTrap]
    /\ UNCHANGED <<store, issued, solved, system, config, primitive>>

\* get_is_fixed(i): is_fixed[i], with no bounds check.
get_is_fixed(i) ==
    /\ \/ /\ InRange(i)
          /\ last' = [op |-> "get_is_fixed", i |-> i, ret |-> FixedAt(i), err |-> NoError]
       \/ /\ ~InRange(i)
          /\ \E garbage \in BOOLEAN :
                last' = [op |-> "get_is_fixed", i |-> i, ret |-> garbage, err |-> NoError]
       \/ /\ ~InRange(i)
          /\ last' = [op |-> "get_is_fixed", i |-> i, err |-> MemoryTrap]
    /\ UNCHANGED <<store, issued, solved, system, config, primitive>>

\* mutant: the flag of the slot is not written
set_p_param_value_only(i, value, fixed) ==
    /\ InRange(i)
    /\ p_params' = [p_params EXCEPT ![i + 1] = value]
    /\ last' = [op |-> "set_p_param", i |-> i, v |-> value, f |-> fixed, err |-> NoError]
    /\ UNCHANGED <<is_fixed, issued, solved, system, config, primitive>>

\* set_p_param(i, value, fixed): *p_params[i] = value; is_fixed[i] = fixed, with
\* no bounds check.  Outside the vector the pointer read is garbage and the
\* write through it is undefined: it traps, lands in memory the store does not
\* own, or lands on the double of some existing slot.
\* mutant: the flag is written to every slot up to i
set_p_param_fill(i, value, fixed) ==
    /\ InRange(i)
    /\ p_params' = [p_params EXCEPT ![i + 1] = value]
    /\ is_fixed' = [k \in DOMAIN is_fixed |-> IF k <= i + 1 THEN fixed ELSE is_fixed[k]]
    /\ last' = [op |-> "set_p_param", i |-> i, v |-> value, f |-> fixed, err |-> NoError]
    /\ UNCHANGED <<issued, solved, system, config, primitive>>

set_p_param(i, value, fixed) ==
    /\ \/ /\ InRange(i)
          /\ p_params' = [p_params EXCEPT ![i + 1] = value]
          /\ is_fixed' = [is_fixed EXCEPT ![i + 1] = fixed]
          /\ last' = [op |-> "set_p_param", i |-> i, v |-> value, f |-> fixed, err |-> NoError]
       \/ /\ ~InRange(i)
          /\ UNCHANGED store
          /\ last' = [op |-> "set_p_param", i |-> i, err |-> MemoryTrap]
       \/ /\ ~InRange(i)
          /\ UNCHANGED store
          /\ last' = [op |-> "set_p_param", i |-> i, err |-> NoError]
       \/ /\ ~InRange(i)
          /\ \E j \in 1 .. Len(p_params) :
                p_params' = [p_params EXCEPT ![j] = value]
          /\ UNCHANGED is_fixed
          /\ last' = [op |-> "set_p_param", i |-> i, err |-> NoError]
    /\ UNCHANGED <<issued, solved, system, config, primitive>>

\* mutant: the index is taken after push_back
push_p_param_index_after(value, fixed) ==
    /\ Len(p_params) < MaxParams
    /\ p_params' = Append(p_params, value)
    /\ is_fixed' = Append(is_fixed, fixed)
    /\ issued' = issued \cup {Len(p_params')}
    /\ UNCHANGED solved
    /\ last' = [op |-> "push_p_param", v |-> value, f |-> fixed,
                ret |-> Len(p_params'), err |-> NoError]
    /\ UNCHANGED <<system, config, primitive>>

push_p_param(value, fixed) ==
    /\ Len(p_params) < MaxParams
    /\ p_params' = Append(p_params, value)
    /\ is_fixed' = Append(is_fixed, fixed)
    /\ issued' = issued \cup {Len(p_params)}
    /\ UNCHANGED solved
    /\ last' = [op |-> "push_p_param", v |-> value, f |-> fixed,
                ret |-> Len(p_params), err |-> NoError]
    /\ UNCHANGED <<system, config, primitive>>

\* the loop of get_p_params: p.push_back(*p_params[i]) for i = 0 .. size-1
\* mutant: the test of solve_system's loop is copied along
RECURSIVE CopyValues_free(_, _)
CopyValues_free(i, p) ==
    IF i < Len(p_params)
    THEN CopyValues_free(i + 1, IF ~FixedAt(i) THEN Append(p, ValueAt(i)) ELSE p)
    ELSE p

RECURSIVE CopyValues(_, _)
CopyValues(i, p) ==
    IF i < Len(p_params) THEN CopyValues(i + 1, Append(p, ValueAt(i))) ELSE p

get_p_params ==
    /\ last' = [op |-> "get_p_params", ret |-> CopyValues(0, <<>>), err |-> NoError]
    /\ UNCHANGED <<store, issued, solved, system, config, primitive>>

\* mutant: the slots are deleted and the flags cleared, p_params is not
clear_data_keeps_pointers ==
    /\ is_fixed' = <<>>
    /\ clist' = {}
    /\ plist' = <<>>
    /\ hasSol' = FALSE
    /\ sol' = <<>>
    /\ issued' = {}
    /\ solved' = NoSolve
    /\ last' = [op |-> "clear_data", freed |-> Len(p_params), err |-> NoError]
    /\ UNCHANGED <<p_params, config, primitive>>

\* GCS::System::clear(): forgets the unknowns, the solution and every constraint
System_clear ==
    /\ clist' = {}
    /\ plist' = <<>>
    /\ hasSol' = FALSE
    /\ sol' = <<>>

\* mutant: the call of clear() is missing
clear_data_keeps_solution ==
    /\ p_params' = <<>>
    /\ is_fixed' = <<>>
    /\ issued' = {}
    /\ solved' = NoSolve
    /\ last' = [op |-> "clear_data", freed |-> Len(p_params), err |-> NoError]
    /\ UNCHANGED <<system, config, primitive>>

\* mutant: clearByTag(0) is called in place of clear()
clear_data_by_tag ==
    /\ p_params' = <<>>
    /\ is_fixed' = <<>>
    /\ clist' = {c \in clist : c.tag # 0}
    /\ issued' = {}
    /\ solved' = NoSolve
    /\ last' = [op |-> "clear_data", freed |-> Len(p_params),
                dropped |-> Cardinality(clist), err |-> NoError]
    /\ UNCHANGED <<plist, hasSol, sol, config, primitive>>

clear_data ==
    /\ p_params' = <<>>
    /\ is_fixed' = <<>>
    /\ System_clear
    /\ issued' = {}
    /\ solved' = NoSolve
    /\ last' = [op |-> "clear_data", freed |-> Len(p_params),
                dropped |-> Cardinality(clist), err |-> NoError]
    /\ UNCHANGED <<config, primitive>>

StoreNext ==
    \/ params_size_call
    \/ \E i \in IndexInputs : get_p_param(i)
    \/ \E i \in IndexInputs : get_is_fixed(i)
    \/ \E i \in IndexInputs, v \in Values, f \in BOOLEAN : set_p_param(i, v, f)
    \/ \E v \in Values, f \in BOOLEAN : push_p_param(v, f)
    \/ get_p_params
    \/ clear_data

\* the parameter store alone
SpecStore == Init /\ [][StoreNext]_vars

\* ---------------------------------------------------------- GeometryBuilder
\* p_params.size() <= i, with size_t size() and int i: i is converted to the
\* unsigned type, so a negative i compares as a value above every size
\* mutant: the comparison is made on signed ints
SizeLeqInt_signed(n, i) == n <= i

SizeLeqInt(n, i) == IF i < 0 THEN TRUE ELSE n <= i

\* a value returned, or an exception leaving the call
Returned(v) == [ok |-> TRUE, v |-> v]

Thrown(e) == [ok |-> FALSE, v |-> e]

\* double* p_param_or_fail(int i): the slot is named by its index
p_param_or_fail(i) ==
    IF SizeLeqInt(Len(p_params), i) THEN Thrown(IndexOutOfRange) ELSE Returned(i)

\* the steps of a constructor run in order and the first exception leaves it;
\* every step throws the same exception and none has a side effect
Build(steps, view) ==
    IF \E k \in DOMAIN steps : ~steps[k].ok THEN Thrown(IndexOutOfRange) ELSE Returned(view)

make_point(px_i, py_i) ==
    LET x == p_param_or_fail(px_i)
        y == p_param_or_fail(py_i)
    IN  Build(<<x, y>>, [x |-> x.v, y |-> y.v])

make_line(p1x_i, p1y_i, p2x_i, p2y_i) ==
    LET p1 == make_point(p1x_i, p1y_i)
        p2 == make_point(p2x_i, p2y_i)
    IN  Build(<<p1, p2>>, [p1 |-> p1.v, p2 |-> p2.v])

make_circle(cx_i, cy_i, rad_i) ==
    LET cp == make_point(cx_i, cy_i)
        rad == p_param_or_fail(rad_i)
    IN  Build(<<cp, rad>>, [center |-> cp.v, rad |-> rad.v])

make_ellipse(cx_i, cy_i, focus1x_i, focus1y_i, radmin_i) ==
    LET center == make_point(cx_i, cy_i)
        focus1 == make_point(focus1x_i, focus1y_i)
        radmin == p_param_or_fail(radmin_i)
    IN  Build(<<center, focus1, radmin>>,
              [center |-> center.v, focus1 |-> focus1.v, radmin |-> radmin.v])

make_hyperbola(cx_i, cy_i, focus1x_i, focus1y_i, radmin_i) ==
    LET center == make_point(cx_i, cy_i)
        focus1 == make_point(focus1x_i, focus1y_i)
        radmin == p_param_or_fail(radmin_i)
    IN  Build(<<center, focus1, radmin>>,
              [center |-> center.v, focus1 |-> focus1.v, radmin |-> radmin.v])

make_parabola(vertexx_i, vertexy_i, focus1x_i, focus1y_i) ==
    LET focus1 == make_point(focus1x_i, focus1y_i)
        vertex == make_point(vertexx_i, vertexy_i)
    IN  Build(<<focus1, vertex>>, [focus1 |-> focus1.v, vertex |-> vertex.v])

make_arc(cx_i, cy_i, startx_i, starty_i, endx_i, endy_i, startangle_i, endangle_i, rad_i) ==
    LET c == make_point(cx_i, cy_i)
        start == make_point(startx_i, starty_i)
        end == make_point(endx_i, endy_i)
        startAngle == p_param_or_fail(startangle_i)
        endAngle == p_param_or_fail(endangle_i)
        rad == p_param_or_fail(rad_i)
    IN  Build(<<c, start, end, startAngle, endAngle, rad>>,
              [center |-> c.v, start |-> start.v, startAngle |-> startAngle.v,
               endAngle |-> endAngle.v, end |-> end.v, rad |-> rad.v])

make_arc_of_ellipse(cx_i, cy_i, focus1x_i, focus1y_i, startx_i, starty_i, endx_i, endy_i, startangle_i, endangle_i, radmin_i) ==
    LET center == make_point(cx_i, cy_i)
        start == make_point(startx_i, starty_i)
        startAngle == p_param_or_fail(startangle_i)
        end == make_point(endx_i, endy_i)
        endAngle == p_param_or_fail(endangle_i)
        radmin == p_param_or_fail(radmin_i)
        focus1 == make_point(focus1x_i, focus1y_i)
    IN  Build(<<center, start, startAngle, end, endAngle, radmin, focus1>>,
              [center |-> center.v, start |-> start.v, startAngle |-> startAngle.v,
               end |-> end.v, endAngle |-> endAngle.v, radmin |-> radmin.v,
               focus1 |-> focus1.v])

make_arc_of_parabola(vertexx_i, vertexy_i, focusx_i, focusy_i, startx_i, starty_i, endx_i, endy_i, startangle_i, endangle_i) ==
    LET start == make_point(startx_i, starty_i)
        startAngle == p_param_or_fail(startangle_i)
        end == make_point(endx_i, endy_i)
        endAngle == p_param_or_fail(endangle_i)
        focus1 == make_point(focusx_i, focusy_i)
        vertex == make_point(vertexx_i, vertexy_i)
    IN  Build(<<start, startAngle, end, endAngle, focus1, vertex>>,
              [start |-> start.v, startAngle |-> startAngle.v, end |-> end.v,
               endAngle |-> endAngle.v, focus1 |-> focus1.v, vertex |-> vertex.v])

make_arc_of_hyperbola(cx_i, cy_i, focus1x_i, focus1y_i, startx_i, starty_i, endx_i, endy_i, startangle_i, endangle_i, radmin_i) ==
    LET center == make_point(cx_i, cy_i)
        start == make_point(startx_i, starty_i)
        startAngle == p_param_or_fail(startangle_i)
        end == make_point(endx_i, endy_i)
        endAngle == p_param_or_fail(endangle_i)
        radmin == p_param_or_fail(radmin_i)
        focus1 == make_point(focus1x_i, focus1y_i)
    IN  Build(<<center, start, startAngle, end, endAngle, radmin, focus1>>,
              [center |-> center.v, start |-> start.v, startAngle |-> startAngle.v,
               end |-> end.v, endAngle |-> endAngle.v, radmin |-> radmin.v,
               focus1 |-> focus1.v])

\* poles_xy_i[i] as the loop of make_bspline reads it: i + 1 is not checked
\* against size(), so for an odd size the last read is one element past the
\* end and yields whatever int lies there
PoleIndexAt(poles_xy_i, i, past_end) ==
    IF i < Len(poles_xy_i) THEN poles_xy_i[i + 1] ELSE past_end

\* for (i = 0; i < poles_xy_i.size(); i += 2): one pass per started pair
PolePasses(poles_xy_i) == (Len(poles_xy_i) + 1) \div 2

make_bspline(startx_i, starty_i, endx_i, endy_i, poles_xy_i, weights_i, knots_i, mult, degree, periodic, past_end) ==
    LET start == make_point(startx_i, starty_i)
        end == make_point(endx_i, endy_i)
        poles == [j \in 1 .. PolePasses(poles_xy_i) |->
                    make_point(PoleIndexAt(poles_xy_i, 2 * (j - 1), past_end),
                               PoleIndexAt(poles_xy_i, 2 * (j - 1) + 1, past_end))]
        weights == [j \in 1 .. Len(weights_i) |-> p_param_or_fail(weights_i[j])]
        knots == [j \in 1 .. Len(knots_i) |-> p_param_or_fail(knots_i[j])]
    IN  Build(<<start, end>> \o poles \o weights \o knots,
              [start |-> start.v, end |-> end.v, degree |-> degree,
               periodic |-> periodic, mult |-> mult,
               poles |-> [j \in DOMAIN poles |-> poles[j].v],
               weights |-> [j \in DOMAIN weights |-> weights[j].v],
               knots |-> [j \in DOMAIN knots |-> knots[j].v]])

\* a make_* call: the view goes back to the caller, or the exception does
MakeCall(name, args, r) ==
    /\ last' = [op |-> name, args |-> args,
                err |-> IF r.ok THEN NoError ELSE r.v,
                view |-> IF r.ok THEN r.v ELSE "none"]
    /\ UNCHANGED <<store, issued, solved, system, config, primitive>>

\* mutant: the point allocates a slot of its own
make_point_call_allocating(a) ==
    /\ p_params' = Append(p_params, 0)
    /\ is_fixed' = Append(is_fixed, FALSE)
    /\ last' = [op |-> "make_point", args |-> a, err |-> NoError, view |-> [x |-> a[1], y |-> a[2]]]
    /\ UNCHANGED <<issued, solved, system, config, primitive>>

make_point_call(a) == MakeCall("make_point", a, make_point(a[1], a[2]))

make_line_call(a) == MakeCall("make_line", a, make_line(a[1], a[2], a[3], a[4]))

make_circle_call(a) == MakeCall("make_circle", a, make_circle(a[1], a[2], a[3]))

make_ellipse_call(a) == MakeCall("make_ellipse", a, make_ellipse(a[1], a[2], a[3], a[4], a[5]))

make_hyperbola_call(a) == MakeCall("make_hyperbola", a, make_hyperbola(a[1], a[2], a[3], a[4], a[5]))

make_parabola_call(a) == MakeCall("make_parabola", a, make_parabola(a[1], a[2], a[3], a[4]))

make_arc_call(a) ==
    MakeCall("make_arc", a, make_arc(a[1], a[2], a[3], a[4], a[5], a[6], a[7], a[8], a[9]))

make_arc_of_ellipse_call(a) ==
    MakeCall("make_arc_of_ellipse", a,
             make_arc_of_ellipse(a[1], a[2], a[3], a[4], a[5], a[6], a[7], a[8], a[9], a[10], a[11]))

make_arc_of_parabola_call(a) ==
    MakeCall("make_arc_of_parabola", a,
             make_arc_of_parabola(a[1], a[2], a[3], a[4], a[5], a[6], a[7], a[8], a[9], a[10]))

make_arc_of_hyperbola_call(a) ==
    MakeCall("make_arc_of_hyperbola", a,
             make_arc_of_hyperbola(a[1], a[2], a[3], a[4], a[5], a[6], a[7], a[8], a[9], a[10], a[11]))

\* a[1..4] are the start and end coordinates, then np pole indices, nw weight
\* indices and nk knot indices
make_bspline_call(a, np, nw, nk, mult, degree, periodic) ==
    \E past_end \in IF np % 2 = 1 THEN PastEndInts ELSE {0} :
        /\ LET r == make_bspline(a[1], a[2], a[3], a[4],
                                 SubSeq(a, 5, 4 + np),
                                 SubSeq(a, 5 + np, 4 + np + nw),
                                 SubSeq(a, 5 + np + nw, 4 + np + nw + nk),
                                 mult, degree, periodic, past_end)
           IN  last' = [op |-> "make_bspline", args |-> a, shape |-> <<np, nw, nk>>,
                        err |-> IF r.ok THEN NoError ELSE r.v,
                        view |-> IF r.ok THEN r.v ELSE "none"]
        /\ UNCHANGED <<store, issued, solved, system, config, primitive>>

\* the builders read no value: one value is pushed while they are explored
GeomValues == {1}

\* what the solver and set_p_param write while every call is explored
SolvedValues == {0}

\* argument vectors of n indices: every position in range (when the store is
\* not empty), neighbouring positions naming different slots
InRangeArgs(n) ==
    [k \in 1 .. n |-> IF Len(p_params) = 0 THEN 0 ELSE (k - 1) % Len(p_params)]

\* slot 0 everywhere but at one position, which holds any index
OneOff(n) ==
    {[k \in 1 .. n |-> IF k = pos THEN x ELSE 0] : pos \in 1 .. n, x \in IndexInputs}

Args(n) == {InRangeArgs(n)} \cup OneOff(n)

\* the calls that change no variable but `last`
Reads ==
    {"params_size", "get_p_param", "get_is_fixed", "get_p_params", "make_point", "make_line",
     "make_circle", "make_ellipse", "make_hyperbola", "make_parabola", "make_arc",
     "make_arc_of_ellipse", "make_arc_of_parabola", "make_arc_of_hyperbola", "make_bspline",
     "dof", "has_conflicting", "has_redundant", "has_partially_redundant",
     "get_conflicting", "get_redundant", "get_partially_redundant"}

\* A read leaves the object as it found it, so a read made after other reads
\* has the outcomes it has when made first: the builders are explored from the
\* states in which the last call was not a read.
FirstRead == last.op \notin Reads

make_any ==
    \/ \E a \in Args(2) : make_point_call(a)
    \/ \E a \in Args(4) : make_line_call(a)
    \/ \E a \in Args(3) : make_circle_call(a)
    \/ \E a \in Args(5) : make_ellipse_call(a)
    \/ \E a \in Args(5) : make_hyperbola_call(a)
    \/ \E a \in Args(4) : make_parabola_call(a)
    \/ \E a \in Args(9) : make_arc_call(a)
    \/ \E a \in Args(11) : make_arc_of_ellipse_call(a)
    \/ \E a \in Args(10) : make_arc_of_parabola_call(a)
    \/ \E a \in Args(11) : make_arc_of_hyperbola_call(a)
    \/ \E np \in 0 .. MaxPolesXY, nw \in 0 .. MaxWeights, nk \in 0 .. MaxKnots :
          \E a \in Args(4 + np + nw + nk), mult \in Mults, degree \in Degrees,
             periodic \in BOOLEAN :
                make_bspline_call(a, np, nw, nk, mult, degree, periodic)

GeomNext ==
    \/ \E v \in GeomValues, f \in BOOLEAN : push_p_param(v, f)
    \/ clear_data
    \/ FirstRead /\ make_any

\* the store and the geometry builders
SpecGeom == Init /\ [][GeomNext]_vars

\* ------------------------------------------- ConstraintRegistry, SolverFacade
\* static_cast<Algorithm>(algorithm), with enum Algorithm of GCS.h
ToAlgorithm(n) ==
    CASE n = 0 -> "BFGS"
      [] n = 1 -> "LevenbergMarquardt"
      [] n = 2 -> "DogLeg"
      [] OTHER -> "unnamed"

\* static_cast<DebugMode>(debug_mode), with enum DebugMode of GCS.h
ToDebugMode(n) ==
    CASE n = 0 -> "NoDebug"
      [] n = 1 -> "Minimal"
      [] n = 2 -> "IterationLevel"
      [] OTHER -> "unnamed"

\* enum SolveStatus of GCS.h, as far as the solve of a declared system returns it
SolveStatus == {"Success", "Converged", "Failed"}

\* mutant: the flag is not tested
RECURSIVE solved_p_params_all(_, _)
solved_p_params_all(i, acc) ==
    IF i < Len(p_params) THEN solved_p_params_all(i + 1, Append(acc, i)) ELSE acc

\* mutant: the test of the flag is inverted
RECURSIVE solved_p_params_fixed(_, _)
solved_p_params_fixed(i, acc) ==
    IF i < Len(p_params)
    THEN solved_p_params_fixed(i + 1, IF FixedAt(i) THEN Append(acc, i) ELSE acc)
    ELSE acc

\* the first loop of solve_system: the slots i = from .. size-1 with
\* !is_fixed[i], pushed onto solved_p_params in the order of the loop
RECURSIVE solved_p_params(_, _)
solved_p_params(i, acc) ==
    IF i < Len(p_params)
    THEN solved_p_params(i + 1, IF ~FixedAt(i) THEN Append(acc, i) ELSE acc)
    ELSE acc

\* the slots whose flag is false
FreeSlots == {i \in 0 .. Len(p_params) - 1 : ~FixedAt(i)}

\* what solve_system writes to the console
SolveLog(alg) ==
    IF debugMode = "IterationLevel"
    THEN CASE alg = "DogLeg" -> "Solving with DogLeg"
           [] alg = "LevenbergMarquardt" -> "Solving with LevenbergMarquardt"
           [] alg = "BFGS" -> "Solving with BFGS"
           [] OTHER -> ""
    ELSE ""

\* GCS::System::solve(params, isFine, alg): declares params as the unknowns and
\* runs the solver on them; the solved values stay inside the system until
\* applySolution, and a failed solve leaves no solution to apply
System_solve(params, status, values) ==
    /\ plist' = params
    /\ hasSol' = (status # "Failed")
    /\ sol' = IF status # "Failed" THEN values ELSE <<>>
    /\ UNCHANGED clist

\* the algorithm GCS::System::solve runs: the one it is handed, unless a
\* temporary constraint is registered ("the parameter is ignored and instead
\* the SQP algorithm is used")
EffectiveAlgorithm(alg) ==
    IF \E c \in clist : c.temporary THEN "SQP" ELSE alg

\* the outcomes the solver may report for n unknowns
SolverValues(n) == [1 .. n -> Values]

\* mutant: a solve that did not converge is raised as an error
solve_system_throwing(algorithm, status, values) ==
    LET alg == ToAlgorithm(algorithm)
        params == solved_p_params(0, <<>>)
    IN  /\ values \in SolverValues(Len(params))
        /\ System_solve(params, status, values)
        /\ last' = [op |-> "solve_system", alg |-> algorithm, params |-> params,
                    log |-> SolveLog(alg), used |-> EffectiveAlgorithm(alg),
                    ret |-> IF status = "Failed" THEN "none" ELSE status,
                    err |-> IF status = "Failed" THEN "solve failed" ELSE NoError]
        /\ solved' = [ran |-> TRUE, ok |-> (status # "Failed"), free |-> FreeSlots]
        /\ UNCHANGED <<store, issued, config, primitive>>

solve_system(algorithm, status, values) ==
    LET alg == ToAlgorithm(algorithm)
        params == solved_p_params(0, <<>>)
    IN  /\ values \in SolverValues(Len(params))
        /\ System_solve(params, status, values)
        /\ last' = [op |-> "solve_system", alg |-> algorithm, params |-> params,
                    log |-> SolveLog(alg), used |-> EffectiveAlgorithm(alg),
                    ret |-> status, err |-> NoError]
        /\ solved' = [ran |-> TRUE, ok |-> (status # "Failed"), free |-> FreeSlots]
        /\ UNCHANGED <<store, issued, config, primitive>>

\* GCS::System::applySolution(): writes the solved value of every unknown
\* through the pointer it was declared with
System_applySolution ==
    p_params' = [k \in DOMAIN p_params |->
                    IF hasSol /\ \E j \in DOMAIN plist : plist[j] = k - 1
                    THEN sol[CHOOSE j \in DOMAIN plist : plist[j] = k - 1]
                    ELSE p_params[k]]

apply_solution ==
    /\ System_applySolution
    /\ last' = [op |-> "apply_solution", after_solve |-> (last.op = "solve_system"),
                err |-> NoError]
    /\ UNCHANGED <<is_fixed, issued, solved, system, config, primitive>>

\* the add_constraint_* functions: a constraint over geometry built on slot p
add_constraint(tag, temporary, p) ==
    /\ Cardinality(clist) < MaxConstraints
    /\ InRange(p)
    /\ clist' = clist \cup {[tag |-> tag, temporary |-> temporary, p |-> p]}
    /\ last' = [op |-> "add_constraint", tag |-> tag, err |-> NoError]
    /\ UNCHANGED <<store, issued, solved, plist, hasSol, sol, config, primitive>>

\* GCS::System::clearByTag(id)
System_clearByTag(id) == clist' = {c \in clist : c.tag # id}

\* mutant: the newest slot goes with the constraints
clear_by_id_releasing(id) ==
    /\ clist' = {c \in clist : c.tag # id}
    /\ p_params' = SubSeq(p_params, 1, Len(p_params) - 1)
    /\ is_fixed' = SubSeq(is_fixed, 1, Len(is_fixed) - 1)
    /\ last' = [op |-> "clear_by_id", tag |-> id,
                removed |-> Cardinality({c \in clist : c.tag = id}), err |-> NoError]
    /\ UNCHANGED <<issued, solved, plist, hasSol, sol, config, primitive>>

\* mutant: clear() is called in place of clearByTag(id)
clear_by_id_all(id) ==
    /\ clist' = {}
    /\ last' = [op |-> "clear_by_id", tag |-> id,
                removed |-> Cardinality({c \in clist : c.tag = id}), err |-> NoError]
    /\ UNCHANGED <<store, issued, solved, plist, hasSol, sol, config, primitive>>

clear_by_id(id) ==
    /\ System_clearByTag(id)
    /\ last' = [op |-> "clear_by_id", tag |-> id,
                removed |-> Cardinality({c \in clist : c.tag = id}), err |-> NoError]
    /\ UNCHANGED <<store, issued, solved, plist, hasSol, sol, config, primitive>>

set_max_iterations(n) ==
    /\ maxIter' = n
    /\ last' = [op |-> "set_max_iterations", err |-> NoError]
    /\ UNCHANGED <<store, issued, solved, system, debugMode, primitive>>

set_debug_mode(debug_mode) ==
    /\ debugMode' = ToDebugMode(debug_mode)
    /\ last' = [op |-> "set_debug_mode", mode |-> debug_mode, err |-> NoError]
    /\ UNCHANGED <<store, issued, solved, system, maxIter, primitive>>

\* the calls that change the object, on every input
SolveNext ==
    \/ \E v \in Values, f \in BOOLEAN : push_p_param(v, f)
    \/ \E i \in 0 .. MaxParams - 1, v \in Values, f \in BOOLEAN : set_p_param(i, v, f)
    \/ clear_data
    \/ \E t \in Tags, tmp \in BOOLEAN, p \in ConstraintSlots : add_constraint(t, tmp, p)
    \/ \E t \in Tags : clear_by_id(t)
    \/ \E a \in AlgorithmInputs, st \in SolveStatus :
          \E x \in SolverValues(Len(solved_p_params(0, <<>>))) : solve_system(a, st, x)
    \/ apply_solution
    \/ \E d \in DebugInputs : set_debug_mode(d)

\* the store, the constraints and the solver
SpecSolve == Init /\ [][SolveNext]_vars

\* ------------------------------------------------------------------ diagnostics
\* the tags of the registered constraints
RegisteredTags == {c.tag : c \in clist}

\* GCS::System::dofsNumber(): the unknowns less the independent constraints,
\* of which there are at most as many as constraints that are not temporary
DofValues ==
    {Len(plist) - k : k \in 0 .. Cardinality({c \in clist : ~c.temporary})} \cap Nat

\* GCS::System::getConflicting, getRedundant, getPartiallyRedundant: tags of
\* registered constraints
TagSets == SUBSET RegisteredTags

\* a diagnostic call returns what the system reports and changes nothing
Diagnostic(name, ret) ==
    /\ last' = [op |-> name, ret |-> ret, err |-> NoError]
    /\ UNCHANGED <<store, issued, solved, system, config, primitive>>

dof == \E n \in DofValues : Diagnostic("dof", n)

has_conflicting == \E b \in BOOLEAN : Diagnostic("has_conflicting", b)

has_redundant == \E b \in BOOLEAN : Diagnostic("has_redundant", b)

has_partially_redundant == \E b \in BOOLEAN : Diagnostic("has_partially_redundant", b)

get_conflicting == \E t \in TagSets : Diagnostic("get_conflicting", t)

get_redundant == \E t \in TagSets : Diagnostic("get_redundant", t)

get_partially_redundant == \E t \in TagSets : Diagnostic("get_partially_redundant", t)

\* the integers a caller passes for an algorithm or a debug mode: the three of
\* the enumeration and one outside it
SelectorInputs == {0, 1, 2, 3}

\* a solving session: parameters, constraints, solves under every selector
\* and the diagnostics read after them
SessionNext ==
    \/ \E f \in BOOLEAN : push_p_param(1, f)
    \/ \E i \in 0 .. MaxParams - 1, f \in BOOLEAN : set_p_param(i, 1, f)
    \/ clear_data
    \/ \E tmp \in BOOLEAN, p \in ConstraintSlots : add_constraint(1, tmp, p)
    \/ \E a \in SelectorInputs, st \in SolveStatus :
          \E x \in [1 .. Len(solved_p_params(0, <<>>)) -> {0}] : solve_system(a, st, x)
    \/ \E d \in SelectorInputs : set_debug_mode(d)
    \/ FirstRead /\ dof
    \/ FirstRead /\ has_conflicting
    \/ FirstRead /\ has_redundant
    \/ FirstRead /\ has_partially_redundant
    \/ FirstRead /\ get_conflicting
    \/ FirstRead /\ get_redundant
    \/ FirstRead /\ get_partially_redundant

SpecSession == Init /\ [][SessionNext]_vars

\* ---------------------------------------------------- PropertyOffsetResolver
GeometryKinds ==
    {"point", "circle", "arc", "ellipse", "arc_of_ellipse", "parabola", "arc_of_parabola",
     "hyperbola", "arc_of_hyperbola", "bspline", "line"}

\* type SketchGeometryProperty
SketchGeometryProperty ==
    {"x", "y", "radius", "start_angle", "end_angle", "radmin",
     "start_x", "start_y", "end_x", "end_y"}

\* const property_offsets: per kind, the properties it declares and their offsets
property_offsets ==
    [point |-> [x |-> 0, y |-> 1],
     circle |-> [radius |-> 0],
     arc |-> [start_angle |-> 0, end_angle |-> 1, radius |-> 2],
     ellipse |-> [radmin |-> 0],
     arc_of_ellipse |-> [start_angle |-> 0, end_angle |-> 1, radmin |-> 2],
     parabola |-> <<>>,
     arc_of_parabola |-> [start_angle |-> 0, end_angle |-> 1],
     hyperbola |-> [radmin |-> 0],
     arc_of_hyperbola |-> [start_angle |-> 0, end_angle |-> 1, radmin |-> 2],
     bspline |-> [start_x |-> 0, start_y |-> 1, end_x |-> 2, end_y |-> 3],
     line |-> <<>>]

UnknownProperty(property_key, type) == <<"Unknown property", property_key, type>>

\* the values a property lookup of JavaScript yields here: a number of the
\* table, a function inherited from Object.prototype, or undefined
JSNumber(n) == [t |-> "number", n |-> n]

JSFunction == [t |-> "function", n |-> 0]

JSUndefined == [t |-> "undefined", n |-> 0]

\* names every object literal inherits from Object.prototype
ObjectPrototype == {"constructor", "toString"}

\* primitive_offsets[property_key]: own property first, then the prototype
PropertyLookup(primitive_offsets, property_key) ==
    IF property_key \in DOMAIN primitive_offsets
    THEN JSNumber(primitive_offsets[property_key])
    ELSE IF property_key \in ObjectPrototype THEN JSFunction ELSE JSUndefined

\* mutant: a control point counts once
bspline_base_single(p) ==
    Len(p.control_points) + Len(p.weights) + Len(p.knots)

\* const base of the bspline branch
bspline_base(p) ==
    Len(p.control_points) * 2 + Len(p.weights) + Len(p.knots)

\* mutant: the lookup falls back to the first entry of the table
get_property_offset_lenient(p, property_key) ==
    IF p.type = "bspline"
    THEN Returned(JSNumber(bspline_base(p)))
    ELSE IF property_key \in DOMAIN property_offsets[p.type]
         THEN Returned(JSNumber(property_offsets[p.type][property_key]))
         ELSE Returned(JSNumber(0))

get_property_offset(p, property_key) ==
    IF p.type = "bspline"
    THEN LET base == bspline_base(p)
         IN  CASE property_key = "start_x" ->
                    Returned(JSNumber(base + property_offsets.bspline.start_x))
               [] property_key = "start_y" ->
                    Returned(JSNumber(base + property_offsets.bspline.start_y))
               [] property_key = "end_x" ->
                    Returned(JSNumber(base + property_offsets.bspline.end_x))
               [] property_key = "end_y" ->
                    Returned(JSNumber(base + property_offsets.bspline.end_y))
               [] OTHER -> Thrown(UnknownProperty(property_key, "bspline"))
    ELSE IF p.type \in DOMAIN property_offsets
         THEN LET offset == PropertyLookup(property_offsets[p.type], property_key)
              IN  IF offset # JSUndefined
                  THEN Returned(offset)
                  ELSE Thrown(UnknownProperty(property_key, p.type))
         ELSE Thrown(UnknownProperty(property_key, p.type))

\* a call records whether it returned, the type of what it returned and, for
\* a number, the number
get_property_offset_call(property_key) ==
    /\ LET r == get_property_offset(primitive, property_key)
       IN  last' = [op |-> "get_property_offset", key |-> property_key,
                    ok |-> r.ok,
                    err |-> IF r.ok THEN NoError ELSE r.v,
                    typ |-> IF r.ok THEN r.v.t ELSE "none",
                    ret |-> IF r.ok /\ r.v.t = "number" THEN r.v.n ELSE "none"]
    /\ UNCHANGED <<store, issued, solved, system, config, primitive>>

\* the property names a caller passes: the declared ones, a name no kind
\* declares, and a name of Object.prototype
PropertyNames == SketchGeometryProperty \cup {"nonexistent_property", "constructor"}

\* the fixed-arity primitives, with the fields of a sketch primitive that the
\* resolver does not read
FixedArityPrimitives ==
    {[type |-> t, id |-> id, fixed |-> f] :
        t \in GeometryKinds \ {"bspline"}, id \in {1, 2}, f \in BOOLEAN}

\* B-spline primitives with c control points, w weights and k knots; `fill`
\* varies the elements of the three arrays
BsplinePrimitive(c, w, k, fill, mult, degree, periodic) ==
    [type |-> "bspline",
     control_points |-> [j \in 1 .. c |-> j + fill],
     weights |-> [j \in 1 .. w |-> 1 + fill],
     knots |-> [j \in 1 .. k |-> fill],
     multiplicities |-> mult, degree |-> degree, periodic |-> periodic]

Primitives ==
    FixedArityPrimitives
    \cup {BsplinePrimitive(c, w, k, fill, mult, degree, periodic) :
            c \in 0 .. MaxControlPoints, w \in 0 .. MaxWeightCount, k \in 0 .. MaxKnotCount,
            fill \in {0, 1}, mult \in {<<>>, <<4, 1, 1, 4>>}, degree \in {2, 3},
            periodic \in BOOLEAN}

OffsetInit ==
    /\ p_params = <<>>
    /\ is_fixed = <<>>
    /\ issued = {}
    /\ solved = NoSolve
    /\ clist = {}
    /\ plist = <<>>
    /\ hasSol = FALSE
    /\ sol = <<>>
    /\ debugMode = "NoDebug"
    /\ maxIter = DefaultMaxIter
    /\ primitive \in Primitives
    /\ last = [op |-> "primitive"]

OffsetNext == \E property_key \in PropertyNames : get_property_offset_call(property_key)

\* get_property_offset on every primitive
SpecOffset == OffsetInit /\ [][OffsetNext]_vars

\* ------------------------------------------------------------ the whole object
\* in range everywhere, or slot 0 everywhere but a last index that is too large
FewArgs(n) == {InRangeArgs(n), [k \in 1 .. n |-> IF k = n THEN MaxParams ELSE 0]}

make_some ==
    \/ \E a \in FewArgs(2) : make_point_call(a)
    \/ \E a \in FewArgs(4) : make_line_call(a)
    \/ \E a \in FewArgs(3) : make_circle_call(a)
    \/ \E a \in FewArgs(5) : make_ellipse_call(a)
    \/ \E a \in FewArgs(5) : make_hyperbola_call(a)
    \/ \E a \in FewArgs(4) : make_parabola_call(a)
    \/ \E a \in FewArgs(9) : make_arc_call(a)
    \/ \E a \in FewArgs(11) : make_arc_of_ellipse_call(a)
    \/ \E a \in FewArgs(10) : make_arc_of_parabola_call(a)
    \/ \E a \in FewArgs(11) : make_arc_of_hyperbola_call(a)
    \/ \E a \in FewArgs(8) : make_bspline_call(a, 2, 1, 1, <<2, 2>>, 3, FALSE)

\* every call of GcsSystem, the reads from the states the other calls leave
Next ==
    \/ \E v \in GeomValues, f \in BOOLEAN : push_p_param(v, f)
    \/ \E i \in IndexInputs, v \in SolvedValues, f \in BOOLEAN : set_p_param(i, v, f)
    \/ clear_data
    \/ \E p \in ConstraintSlots : add_constraint(1, FALSE, p)
    \/ clear_by_id(1)
    \/ \E a \in AlgorithmInputs, st \in SolveStatus :
          \E x \in [1 .. Len(solved_p_params(0, <<>>)) -> SolvedValues] : solve_system(a, st, x)
    \/ apply_solution
    \/ \E n \in MaxIterInputs : set_max_iterations(n)
    \/ \E d \in DebugInputs : set_debug_mode(d)
    \/ FirstRead /\ params_size_call
    \/ FirstRead /\ \E i \in IndexInputs : get_p_param(i)
    \/ FirstRead /\ \E i \in IndexInputs : get_is_fixed(i)
    \/ FirstRead /\ get_p_params
    \/ FirstRead /\ make_some

Spec == Init /\ [][Next]_vars

\* ===================================================================== claims
Accessors == {"get_p_param", "set_p_param", "get_is_fixed"}

MakeOps ==
    {"make_point", "make_line", "make_circle", "make_ellipse", "make_hyperbola",
     "make_parabola", "make_arc", "make_arc_of_ellipse", "make_arc_of_parabola",
     "make_arc_of_hyperbola", "make_bspline"}

\* C1: the parameters solve_system hands to the solver are the slots whose
\* fixed flag is false at the call, each once and in ascending index order;
\* they are what the system declares as its unknowns.
C1_SolverGetsFreeSlots ==
    last.op = "solve_system" =>
        /\ {last.params[j] : j \in DOMAIN last.params} = FreeSlots
        /\ \A j \in 1 .. Len(last.params) - 1 : last.params[j] < last.params[j + 1]
        /\ plist = last.params

\* a solve of a store whose flags were fixed, free, then toggled to free, fixed
C1_Witness ==
    /\ last.op = "solve_system" /\ is_fixed = <<FALSE, TRUE>> /\ last.params = <<0>>
    /\ hasSol /\ debugMode = "IterationLevel"

\* C2: solve_system changes no flag and no value of a fixed slot, and an
\* apply_solution that follows it leaves the value and the flag of every slot
\* that was fixed at the solve as they were.
C2_FixedSurvivesSolve ==
    [][/\ last'.op = "solve_system" =>
            /\ is_fixed' = is_fixed
            /\ \A i \in 0 .. Len(p_params) - 1 :
                  FixedAt(i) => p_params'[i + 1] = p_params[i + 1]
       /\ (last.op = "solve_system" /\ last'.op = "apply_solution") =>
            /\ is_fixed' = is_fixed
            /\ Len(p_params') = Len(p_params)
            /\ \A i \in 0 .. Len(p_params) - 1 :
                  FixedAt(i) => p_params'[i + 1] = p_params[i + 1]]_vars

\* after a successful solve and its apply: slot 0 fixed and under a constraint,
\* slot 1 free and written by the solver
C2_Witness ==
    /\ last.op = "apply_solution" /\ last.after_solve /\ hasSol
    /\ Len(p_params) = 2 /\ FixedAt(0) /\ ~FixedAt(1)
    /\ \E c \in clist : c.p = 0
    /\ plist = <<1>> /\ ValueAt(0) # ValueAt(1)

\* C3: get_p_param, set_p_param and get_is_fixed called with an index outside
\* 0 .. params_size()-1 fail with the IndexOutOfRange error.  (The accessors
\* index the vectors unchecked, so this is violated.)
C3_AccessorsFailOutOfRange ==
    (last.op \in Accessors /\ ~InRange(last.i)) => last.err = IndexOutOfRange

\* C4: push_p_param returns the size the store had before the call and grows
\* both vectors by exactly one, so that the indices returned since the last
\* clear_data are 0, 1, 2, ... in this order.
C4_PushReturnsSize ==
    [][last'.op = "push_p_param" =>
          /\ last'.ret = Len(p_params)
          /\ Len(p_params') = Len(p_params) + 1
          /\ Len(is_fixed') = Len(is_fixed) + 1
          /\ issued' = 0 .. last'.ret]_vars

C4_Witness ==
    last.op = "push_p_param" /\ last.ret = 1 /\ Len(p_params) = 2

\* C5: after i = push_p_param(v, f) slot i reads v and f; after
\* set_p_param(i, v, f) on a valid i slot i reads v and f; get_p_param and
\* get_is_fixed on a valid index return what the slot holds and change
\* nothing, so repeated reads agree until the store is written.
C5_ReadBack ==
    /\ [](/\ last.op = "push_p_param" =>
                ValueAt(last.ret) = last.v /\ FixedAt(last.ret) = last.f
          /\ (last.op = "set_p_param" /\ InRange(last.i)) =>
                ValueAt(last.i) = last.v /\ FixedAt(last.i) = last.f
          /\ (last.op = "get_p_param" /\ InRange(last.i)) =>
                last.err = NoError /\ last.ret = ValueAt(last.i)
          /\ (last.op = "get_is_fixed" /\ InRange(last.i)) =>
                last.err = NoError /\ last.ret = FixedAt(last.i))
    /\ [][last'.op \in {"get_p_param", "get_is_fixed"} => UNCHANGED store]_vars

C5_Witness ==
    /\ Len(p_params) = 2 /\ ValueAt(1) = 0 /\ FixedAt(1) = FALSE
    /\ last.op = "set_p_param" /\ last.i = 0 /\ last.v = 1 /\ last.f = TRUE

\* C8: a make_* call that is passed an index outside 0 .. params_size()-1 at
\* any position, the elements of the B-spline index sequences included, throws
\* the IndexOutOfRange error and returns no view.
C8_BadIndexThrows ==
    (last.op \in MakeOps /\ \E k \in DOMAIN last.args : ~InRange(last.args[k]))
        => (last.err = IndexOutOfRange /\ last.view = "none")

\* a B-spline whose only bad index is a negative last knot, on a store with slots
C8_Witness ==
    /\ last.op = "make_bspline" /\ last.err = IndexOutOfRange
    /\ Len(p_params) > 0
    /\ last.shape[1] = 3 /\ last.shape[3] > 0
    /\ last.args[Len(last.args)] = -1
    /\ \A k \in 1 .. Len(last.args) - 1 : InRange(last.args[k])

\* C9: a make_* call, returning or throwing, leaves the size of the store and
\* the value and the flag of every slot as they were.
C9_MakeLeavesStore ==
    [][last'.op \in MakeOps => (p_params' = p_params /\ is_fixed' = is_fixed)]_vars

\* an arc whose last index is too large, thrown after three points were built
C9_Witness ==
    /\ last.op = "make_arc" /\ last.err = IndexOutOfRange
    /\ Len(p_params) = 2
    /\ last.args[9] = MaxParams
    /\ \A k \in 1 .. 8 : InRange(last.args[k])

\* C6: after clear_data, from any state, the store has no slot and no flag:
\* params_size() is 0 and get_p_params() is the empty sequence.
C6_ClearEmptiesStore ==
    last.op = "clear_data" =>
        /\ params_size = 0
        /\ Len(is_fixed) = 0
        /\ CopyValues(0, <<>>) = <<>>

\* a clear_data that released every slot of a full store
C6_Witness ==
    last.op = "clear_data" /\ last.freed = MaxParams

\* C7: no call but clear_data shrinks the store; only push_p_param changes its
\* size; push_p_param returns an index not returned since the last clear_data
\* and leaves the value and the flag of every existing slot as they were.
C7_AppendOnly ==
    [][/\ last'.op # "clear_data" =>
            /\ Len(p_params') >= Len(p_params)
            /\ Len(is_fixed') >= Len(is_fixed)
       /\ last'.op \notin {"clear_data", "push_p_param"} =>
            /\ Len(p_params') = Len(p_params)
            /\ Len(is_fixed') = Len(is_fixed)
            /\ issued' = issued
       /\ last'.op = "push_p_param" =>
            /\ last'.ret \notin issued
            /\ SubSeq(p_params', 1, Len(p_params)) = p_params
            /\ SubSeq(is_fixed', 1, Len(is_fixed)) = is_fixed]_vars

\* a clear_by_id that removed a constraint from a full store holding a solution
C7_Witness ==
    /\ last.op = "clear_by_id" /\ last.removed > 0
    /\ Len(p_params) = MaxParams /\ hasSol

BsplineProperties == {"start_x", "start_y", "end_x", "end_y"}

\* the position of a B-spline property behind the poles, weights and knots
BsplineRank(key) ==
    CASE key = "start_x" -> 0 [] key = "start_y" -> 1 [] key = "end_x" -> 2 [] key = "end_y" -> 3

\* C10: for a B-spline with c control points, w weights and k knots,
\* get_property_offset returns 2c + w + k, + 1, + 2 and + 3 for start_x,
\* start_y, end_x and end_y, whatever the other fields of the primitive hold.
C10_BsplineOffsets ==
    (last.op = "get_property_offset" /\ primitive.type = "bspline"
        /\ last.key \in BsplineProperties) =>
        /\ last.err = NoError
        /\ last.ret = 2 * Len(primitive.control_points) + Len(primitive.weights)
                        + Len(primitive.knots) + BsplineRank(last.key)

\* end_y of a B-spline with 4 control points, 4 weights and 8 knots is 23
C10_Witness ==
    /\ primitive.type = "bspline"
    /\ last.op = "get_property_offset" /\ last.key = "end_y"
    /\ last.err = NoError /\ last.ret = 23
    /\ Len(primitive.control_points) = 4 /\ Len(primitive.weights) = 4
    /\ Len(primitive.knots) = 8

\* the table of the fixed-arity kinds, as <<kind, property, offset>>
StaticTable ==
    {<<"point", "x", 0>>, <<"point", "y", 1>>, <<"circle", "radius", 0>>,
     <<"arc", "start_angle", 0>>, <<"arc", "end_angle", 1>>, <<"arc", "radius", 2>>,
     <<"ellipse", "radmin", 0>>, <<"hyperbola", "radmin", 0>>,
     <<"arc_of_ellipse", "start_angle", 0>>, <<"arc_of_ellipse", "end_angle", 1>>,
     <<"arc_of_ellipse", "radmin", 2>>,
     <<"arc_of_hyperbola", "start_angle", 0>>, <<"arc_of_hyperbola", "end_angle", 1>>,
     <<"arc_of_hyperbola", "radmin", 2>>,
     <<"arc_of_parabola", "start_angle", 0>>, <<"arc_of_parabola", "end_angle", 1>>}

\* C11: for a fixed-arity kind get_property_offset returns the entry of the
\* static table for (kind, property), whatever the other fields of the
\* primitive hold, and parabola and line have no declared property that
\* resolves.
C11_StaticOffsets ==
    (last.op = "get_property_offset" /\ primitive.type # "bspline") =>
        /\ \A d \in StaticTable :
              (d[1] = primitive.type /\ d[2] = last.key) =>
                  (last.ok /\ last.typ = "number" /\ last.ret = d[3])
        /\ (primitive.type \in {"parabola", "line"}
                /\ last.key \in SketchGeometryProperty) => ~last.ok

\* radmin of an arc of hyperbola with id 2 resolves to 2
C11_Witness ==
    /\ last.op = "get_property_offset" /\ last.key = "radmin"
    /\ primitive.type = "arc_of_hyperbola" /\ primitive.id = 2
    /\ last.ok /\ last.typ = "number" /\ last.ret = 2

\* the (kind, property) pairs that declare an offset
Declared(type, key) ==
    IF type = "bspline"
    THEN key \in BsplineProperties
    ELSE \E d \in StaticTable : d[1] = type /\ d[2] = key

\* C12: get_property_offset fails closed: for every kind and every property
\* name it returns a number when the pair declares an offset and fails with
\* UnknownProperty otherwise; it never returns anything but an integer.
C12_FailsClosed ==
    last.op = "get_property_offset" =>
        IF Declared(primitive.type, last.key)
        THEN last.ok /\ last.typ = "number"
        ELSE ~last.ok /\ last.err = UnknownProperty(last.key, primitive.type)

\* C13: resolving a property of a B-spline whose number of weights differs
\* from its number of control points fails with UnknownProperty.
C13_InconsistentShapeFails ==
    (last.op = "get_property_offset" /\ primitive.type = "bspline"
        /\ Len(primitive.weights) # Len(primitive.control_points)) =>
        (~last.ok /\ last.err = UnknownProperty(last.key, "bspline"))

\* the algorithm a line of the console names
Reports(log) ==
    CASE log = "Solving with DogLeg" -> "DogLeg"
      [] log = "Solving with LevenbergMarquardt" -> "LevenbergMarquardt"
      [] log = "Solving with BFGS" -> "BFGS"
      [] log = "Solving with SQP" -> "SQP"
      [] OTHER -> "nothing"

\* C14: with a temporary constraint registered solve_system uses SQP for
\* every algorithm hint, without one it uses the algorithm requested, and at
\* debug level IterationLevel the console names the algorithm that is used.
C14_TemporaryForcesSQP ==
    (last.op = "solve_system" /\ ToAlgorithm(last.alg) # "unnamed") =>
        /\ last.used = IF \E c \in clist : c.temporary THEN "SQP" ELSE ToAlgorithm(last.alg)
        /\ debugMode = "IterationLevel" => Reports(last.log) = last.used

C16_ClearByTag ==
    [][/\ last'.op = "clear_by_id" => clist' = {c \in clist : c.tag # last'.tag}
       /\ (last.op = "clear_by_id" /\ last'.op = "solve_system") =>
             (clist' = clist /\ \A c \in clist : c.tag # last.tag)
       /\ (last.op = "clear_by_id" /\ last'.op = "add_constraint"
              /\ last'.tag = last.tag) =>
             (\E c \in clist' : c.tag = last.tag)]_vars

\* clear_by_id removed a constraint and left one of the other tag
C16_Witness ==
    /\ last.op = "clear_by_id" /\ last.removed > 0
    /\ \E c \in clist : c.tag # last.tag

DiagnosticOps ==
    {"dof", "has_conflicting", "has_redundant", "has_partially_redundant",
     "get_conflicting", "get_redundant", "get_partially_redundant"}

\* C17: solve_system returns a status and raises nothing, whatever the
\* outcome of the solve; and once a solve has been attempted, the diagnostics
\* return and push_p_param, set_p_param on a valid index, the registration of
\* a constraint and solve_system are carried out.
C17_SolveReturnsStatus ==
    [][/\ last'.op = "solve_system" =>
             (last'.err = NoError /\ last'.ret \in SolveStatus)
       /\ (solved.ran /\ last'.op \in DiagnosticOps) => last'.err = NoError
       /\ (solved.ran /\ last'.op = "push_p_param") =>
             (last'.err = NoError /\ Len(p_params') = Len(p_params) + 1)
       /\ (solved.ran /\ last'.op = "set_p_param" /\ InRange(last'.i)) =>
             (last'.err = NoError /\ is_fixed'[last'.i + 1] = last'.f)
       /\ (solved.ran /\ last'.op = "add_constraint") =>
             (last'.err = NoError /\ \E c \in clist' : c.tag = last'.tag)]_vars

\* the conflicting tags read after a solve that failed over a constraint
C17_Witness ==
    /\ last.op = "get_conflicting"
    /\ solved.ran /\ ~solved.ok
    /\ clist # {} /\ Len(p_params) > 0

\* the integers of enum Algorithm and of enum DebugMode
Enumerated == {0, 1, 2}

\* C18: solve_system with an algorithm selector outside the enumeration, and
\* set_debug_mode with a debug-mode selector outside the enumeration, fail
\* with an error.
C18_SelectorsValidated ==
    /\ (last.op = "solve_system" /\ last.alg \notin Enumerated) => last.err # NoError
    /\ (last.op = "set_debug_mode" /\ last.mode \notin Enumerated) => last.err # NoError

\* C19: get_p_params returns the values of the slots 0 .. params_size()-1 in
\* index order, fixed and free alike, and changes nothing in the store.
C19_Snapshot ==
    [][last'.op = "get_p_params" =>
          /\ Len(last'.ret) = Len(p_params)
          /\ \A i \in 0 .. Len(p_params) - 1 : last'.ret[i + 1] = p_params[i + 1]
          /\ p_params' = p_params /\ is_fixed' = is_fixed]_vars

\* a snapshot of two different values, the first of a fixed slot
C19_Witness ==
    /\ last.op = "get_p_params"
    /\ Len(last.ret) = 2 /\ last.ret[1] # last.ret[2]
    /\ Len(p_params) = 2 /\ FixedAt(0) /\ ~FixedAt(1)

AllGiven(args) == \A k \in DOMAIN args : InRange(args[k])

\* C21: make_bspline given indices of the store builds floor(n/2) poles from
\* the n elements of poles_xy_i, the j-th from elements 2j and 2j+1, one
\* weight per element of weights_i and one knot per element of knots_i, in
\* input order; it reads nothing past the end of poles_xy_i, whose length may
\* be odd.
C21_BsplineReadsInside ==
    (last.op = "make_bspline" /\ AllGiven(last.args)) =>
        /\ last.err = NoError
        /\ LET np == last.shape[1]
               nw == last.shape[2]
               nk == last.shape[3]
           IN  /\ Len(last.view.poles) = np \div 2
               /\ \A j \in 1 .. np \div 2 :
                     last.view.poles[j] = [x |-> last.args[4 + 2 * j - 1],
                                           y |-> last.args[4 + 2 * j]]
               /\ last.view.weights = SubSeq(last.args, 5 + np, 4 + np + nw)
               /\ last.view.knots = SubSeq(last.args, 5 + np + nw, 4 + np + nw + nk)

\* C22: an offset that get_property_offset returns is a non-negative integer,
\* no other property name of the same primitive resolves to it, and for a
\* B-spline it is at least 2c + w + k.
C22_OffsetsInjective ==
    (last.op = "get_property_offset" /\ last.ok) =>
        /\ last.typ = "number"
        /\ last.ret \in Nat
        /\ \A other \in PropertyNames \ {last.key} :
              LET r == get_property_offset(primitive, other)
              IN  r.ok => r.v # JSNumber(last.ret)
        /\ primitive.type = "bspline" =>
              last.ret >= 2 * Len(primitive.control_points) + Len(primitive.weights)
                            + Len(primitive.knots)

\* C23: the values and the flags have the same length, which params_size
\* returns, and set_p_param on a valid index writes that slot and leaves the
\* size and every other slot as they were.
C23_StoreShape ==
    /\ [](Len(p_params) = Len(is_fixed))
    /\ [][/\ last'.op = "params_size" => last'.ret = Len(is_fixed')
          /\ (last'.op = "set_p_param" /\ InRange(last'.i)) =>
                /\ Len(p_params') = Len(p_params)
                /\ Len(is_fixed') = Len(is_fixed)
                /\ p_params'[last'.i + 1] = last'.v
                /\ is_fixed'[last'.i + 1] = last'.f
                /\ \A j \in 0 .. Len(p_params) - 1 :
                      j # last'.i => (/\ p_params'[j + 1] = p_params[j + 1]
                                      /\ is_fixed'[j + 1] = is_fixed[j + 1])]_vars

\* set_p_param wrote slot 1 of two slots: slot 0 keeps the pushed value and
\* its flag
C23_Witness ==
    /\ last.op = "set_p_param" /\ last.err = NoError
    /\ Len(p_params) = 2 /\ last.i = 1
    /\ ValueAt(1) = 0 /\ FixedAt(1)
    /\ ValueAt(0) = 1 /\ ~FixedAt(0)

====
